---- MODULE Spec2Model ----
(***************************************************************************)
(* Verse-checker: the bulk loaders that populate the Vector Index.         *)
(*                                                                         *)
(* Two loader processes run the same loader program (kind) over the same   *)
(* corpus against one shared index.  A verse is identified by its position *)
(* in the corpus (the corpus keeps identity keys unique, so the derived id *)
(* "{book}_{chapter}_{verse}" is one-to-one with the position).  The index *)
(* is the set of verse ids it stores; an upsert is a set union.            *)
(*                                                                         *)
(* Further specifications over the same variables, each leaving the other  *)
(* parts idle: SpecResume (the resume offset), SpecConfig (loaders in a    *)
(* misconfigured deployment), SpecId (the id an entry gets), SpecLocal     *)
(* (bible_loader.load_and_embed on the local store), SpecMatch (one query  *)
(* of the Match Engine on either backend), SpecService (the /check and     *)
(* /health handlers and the index population of the service modules),      *)
(* SpecBuild (app.main's build phase under fair scheduling) and SpecRetry   *)
(* (the upload of one batch with its retries).                             *)
(***************************************************************************)
EXTENDS Integers, Sequences, FiniteSets, TLC

\* ------------------------------------------------------------------ bounds
\* Largest corpus of the model (the real corpus has 31102 verses).
MaxCorpus == 60

\* Largest index size the resume-offset specification enumerates.
MaxCount == 2100

\* Longest book name, largest chapter or verse number and largest corpus
\* position of the id derivation.
MaxBookLen == 2
MaxNumber == 11
MaxPos == 2

\* Largest corpus given to the local loader.
MaxLocalCorpus == 3

\* Longest quote, and how far on each side of the threshold the best
\* neighbour's score is enumerated (in units of 0.00001).
MaxQuote == 2
ScoreWindow == 12

\* Most population tasks created and not yet begun, and most under way.
MaxTasks == 2
MaxRunning == 2

\* upload of one batch: the largest max_retries a call is given
MaxBudget == 7

\* ------------------------------------------------------- program constants
SIMPLE_TARGET == 31102
READY_COUNT == 31000
RESUME_CAP == 100

\* scores are counted in units of 0.00001: 0.7 is 70000, 0.6 is 60000
SIMILARITY_THRESHOLD == 70000
max_length == 1000
pinecone_threshold == 70000
possible_threshold == 60000

Procs == {"a", "b"}

Kinds == {"standalone", "upload_all", "simple_upload", "app_main", "pinecone_store"}

\* loaders that read the index size first and resume from it
BuilderKinds == {"standalone", "upload_all", "simple_upload"}

\* standalone's five attempts and retry pass make its runs the longest: it
\* gets the two-batch corpus only, the other loaders a longer one as well
CorpusSizes(k) ==
    IF k = "standalone" THEN {MaxCorpus} ELSE {MaxCorpus, 2 * MaxCorpus}

\* positions of the records that lack a required field
InvalidChoices(t) == {{}, {t - 1}}

VARIABLES
    config_error,       \* "none", or what is wrong with the deployment
    kind,               \* the loader program both processes run
    total,              \* len(verses_data)
    invalid,            \* positions of records missing a required field
    index,              \* ids stored in the Vector Index
    pc,                 \* where each process is in its run
    current_count,      \* index size read at the start (0 when the read failed)
    progress_ok,        \* whether that read succeeded
    resume_from,        \* first corpus position of the run
    i,                  \* start of the batch being uploaded
    attempt,            \* failed attempts of the current upload_batch call
    failed_batches,     \* starts of the batches recorded as failed, in order
    retry_at,           \* position in failed_batches during the retry pass
    successful_uploads, \* count of entries the run upserted
    final_count,        \* index size read at the end (-1: not read / failed)
    failed,             \* upload_all's count of entries that were not uploaded
    result,             \* the run's reported outcome
    final_read,         \* "none", "ok" or "failed": the read of final_count
    attempted,          \* history: batch starts for which an upsert was issued
    upsert_failed,      \* history: some upsert attempt of the run has failed
    ended_before,       \* history: the runs that had ended when this one began
    retried,            \* history: batch starts of the retry pass's rounds
    counted,            \* history: batch starts whose upsert succeeded, in order
    loader,             \* id derivation: the loader that builds the entry
    verse,              \* id derivation: the record's book, chapter and verse
    at,                 \* id derivation: the positions the record is loaded from
    ids,                \* id derivation: the ids of the entries built from it
    collection_exists,  \* local store: the collection "bible" exists
    points,             \* local store: ids of the collection's points
    lpc,                \* where the current load_and_embed invocation is
    force_reload,       \* the current invocation's force_reload argument
    prev,               \* history: how the previous invocation ended
    backend,            \* Match Engine: "qdrant" or "pinecone"
    quote,              \* Match Engine: the quote, a sequence of characters
    neighbour,          \* Match Engine: what the index returns for the query
    reachable,          \* Match Engine: the index answers the query
    encodes,            \* Match Engine: the model embeds the quote
    response,           \* Match Engine: the result returned (or the error)
    calls,              \* Match Engine: embedding calls and index queries of the query
    api_key,            \* service: PINECONE_API_KEY is set
    pinecone_ready,     \* service: the global pinecone_ready
    population_in_progress, \* service: the global population_in_progress
    tasks,              \* service: population tasks created and not yet begun
    running,            \* service: population tasks begun and not yet over
    http_status,        \* service: status of the last answer of POST /check
    app,                \* service: the service module that runs
    model_loaded,       \* service: the global model is not None
    vector_count,       \* service: vectors the Pinecone index holds
    written,            \* history: the index was written since the last /check
    health,             \* service: the last answer of GET /health
    env,                \* service: what the model and Pinecone do in this execution
    caller,             \* batch upload: the code that retries the upsert
    budget,             \* batch upload: max_retries of the call
    tries,              \* batch upload: the loop variable (attempt, retry_count)
    bpc,                \* batch upload: where the call is
    upserts,            \* history: index.upsert calls the call has issued
    sleeps,             \* history: asyncio.sleep calls the call has made
    returned            \* batch upload: the call's return value

\* the state of the bulk-loader runs
loader_vars == <<kind, total, invalid, index, pc, current_count, progress_ok,
                 resume_from, i, attempt, failed_batches, retry_at,
                 successful_uploads, final_count, failed, result, final_read,
                 attempted, upsert_failed, ended_before, retried,
                 counted>>

\* the state no step of a bulk-loader run writes
id_vars == <<loader, verse, at, ids>>

local_vars == <<collection_exists, points, lpc, force_reload, prev>>

match_vars == <<backend, quote, neighbour, reachable, encodes, response,
                calls>>

service_vars == <<api_key, pinecone_ready, population_in_progress, tasks,
                  running, http_status, app, model_loaded, vector_count,
                  written, health, env>>

call_vars == <<caller, budget, tries, bpc, upserts, sleeps, returned>>

outside == <<config_error, id_vars, local_vars, match_vars, service_vars,
             call_vars>>

vars == <<loader_vars, outside>>

\* --------------------------------------------------------------- the corpus
Min(x, y) == IF x <= y THEN x ELSE y
Max(x, y) == IF x >= y THEN x ELSE y

Verses == 0 .. (total - 1)

\* records that carry book, chapter, verse and text
Valid == Verses \ invalid

batch_size(k) == IF k = "pinecone_store" THEN 100 ELSE 50

\* verses_data[s : s + batch_size]
Batch(k, s) == s .. (Min(s + batch_size(k), total) - 1)

\* (mutant) ids numbered from the batch's position instead of derived from
\* the verse's identity key
VectorsBatchIds(k, s) == {v + s : v \in Batch(k, s) \cap Valid}

\* vectors_to_upsert of the batch: a record missing a field raises KeyError
\* inside the per-verse try and is skipped
Vectors(k, s) == Batch(k, s) \cap Valid

\* max_retries of the main pass
max_retries(k) ==
    CASE k = "standalone" -> 5
      [] k = "pinecone_store" -> 1
      [] OTHER -> 3

\* max_retries of standalone's retry pass
retry_pass_retries == 3

\* ------------------------------------------------------------ resume offset
\* (mutant) the buffer is added to the count instead of subtracted
find_resume_point_plus(n) ==
    IF n = 0 THEN 0
    ELSE LET buffer == Max(0, Min(RESUME_CAP, n \div 10))
         IN  Max(0, n + buffer)

\* (mutant) the buffer is not capped
find_resume_point_nocap(n) ==
    IF n = 0 THEN 0
    ELSE LET buffer == Max(0, n \div 10)
         IN  Max(0, n - buffer)

find_resume_point(n) ==
    IF n = 0 THEN 0
    ELSE LET buffer == Max(0, Min(RESUME_CAP, n \div 10))
         IN  Max(0, n - buffer)

upload_all_resume(n) ==
    LET buffer == Max(0, Min(RESUME_CAP, n \div 10))
    IN  Max(0, n - buffer)

simple_upload_resume(n) ==
    LET buffer == Max(0, Min(RESUME_CAP, n \div 20))
    IN  Max(0, n - buffer)

ResumeOf(k, n) ==
    CASE k = "standalone" -> find_resume_point(n)
      [] k = "upload_all" -> upload_all_resume(n)
      [] k = "simple_upload" -> simple_upload_resume(n)
      [] OTHER -> 0

\* final_count >= target * 0.95
Enough(count, target) == count * 20 >= target * 19

\* ------------------------------------------------------------ control flow
\* First batch start at or after s that the loop body does not skip:
\* standalone continues past a batch without valid vectors.
\* (mutant) the loop stops before a last batch that is not full
NextStartFullOnly(k, s) ==
    IF s + batch_size(k) > total THEN Max(s, total) ELSE s

RECURSIVE NextStart(_, _)
NextStart(k, s) ==
    IF s >= total THEN s
    ELSE IF k = "standalone" /\ Vectors(k, s) = {}
         THEN NextStart(k, s + batch_size(k))
         ELSE s

\* Where the run goes when its loop reaches position s0, with fb the batches
\* recorded as failed and succ the entries counted as uploaded so far.
LoopFrom(k, s0, fb, succ) ==
    LET s == NextStart(k, s0)
    IN  IF s < total
        THEN IF k = "pinecone_store" /\ Batch(k, s) \cap invalid # {}
             THEN [pc |-> "done", i |-> s, result |-> "false"]
             ELSE [pc |-> "upsert", i |-> s, result |-> "none"]
        ELSE CASE k = "standalone" ->
                    [pc |-> IF fb # <<>> THEN "retry" ELSE "final",
                     i |-> s, result |-> "none"]
               [] k = "pinecone_store" ->
                    [pc |-> "done", i |-> s, result |-> "true"]
               [] k = "app_main" ->
                    IF Enough(succ, total)
                    THEN [pc |-> "final", i |-> s, result |-> "none"]
                    ELSE [pc |-> "done", i |-> s, result |-> "false"]
               [] OTHER ->
                    [pc |-> "final", i |-> s, result |-> "none"]

\* (mutant) the run is aborted at the first batch whose retries are exhausted
OnExhaustedAbort(k, s, fb, succ) ==
    [fb |-> fb, ctl |-> [pc |-> "done", i |-> s, result |-> "false"]]

\* (mutant) a loader without a retry pass steps over the batch and goes on
OnExhaustedSkips(k, s, fb, succ) ==
    CASE k = "standalone" ->
            [fb |-> Append(fb, s),
             ctl |-> LoopFrom(k, s + batch_size(k), Append(fb, s), succ)]
      [] OTHER ->
            [fb |-> fb, ctl |-> LoopFrom(k, s + batch_size(k), fb, succ)]

\* What a batch whose retries are exhausted does to the run.
OnExhausted(k, s, fb, succ) ==
    CASE k = "standalone" ->
            [fb |-> Append(fb, s),
             ctl |-> LoopFrom(k, s + batch_size(k), Append(fb, s), succ)]
      [] k = "upload_all" ->
            [fb |-> fb, ctl |-> LoopFrom(k, s + batch_size(k), fb, succ)]
      [] OTHER ->
            [fb |-> fb, ctl |-> [pc |-> "done", i |-> s, result |-> "false"]]

\* ------------------------------------------------------------- entry ids
Digit(d) == <<"0", "1", "2", "3", "4", "5", "6", "7", "8", "9">>[d + 1]

\* str(n) of a number without sign, as its sequence of characters
RECURSIVE Dec(_)
Dec(n) == IF n < 10 THEN <<Digit(n)>> ELSE Dec(n \div 10) \o <<Digit(n % 10)>>

\* (mutant) chapter and verse are joined without a separator
pinecone_id_unseparated(v) == v.book \o <<"_">> \o Dec(v.chapter) \o Dec(v.verse)

\* f"{verse['book']}_{verse['chapter']}_{verse['verse']}"
pinecone_id(v) == v.book \o <<"_">> \o Dec(v.chapter) \o <<"_">> \o Dec(v.verse)

\* the id of the entry a loader builds from record v found at position n of
\* the corpus: bible_loader numbers its points by enumerate(verses)
point_id(l, n, v) == IF l = "bible_loader" THEN n ELSE pinecone_id(v)

IdLoaders == Kinds \cup {"bible_loader"}

\* the characters of a book name: a digit (as in "1 John") and the separator
\* of the id
BookChars == {"1", "_"}

Books == UNION {[1 .. n -> BookChars] : n \in 1 .. MaxBookLen}

\* no id is being derived
IdIdle ==
    /\ loader = "none"
    /\ verse = [book |-> <<"a">>, chapter |-> 1, verse |-> 1]
    /\ at = <<0, 0>>
    /\ ids = <<>>

\* ----------------------------------------------------------- Match Engine
QuoteChars == {" ", "x"}

Quotes == UNION {[1 .. n -> QuoteChars] : n \in 0 .. MaxQuote}

\* str.strip(): leading and trailing whitespace removed
RECURSIVE strip(_)
strip(q) ==
    IF q = <<>> THEN q
    ELSE IF Head(q) = " " THEN strip(Tail(q))
    ELSE IF q[Len(q)] = " " THEN strip(SubSeq(q, 1, Len(q) - 1))
    ELSE q

\* (mutant) the fifth decimal is cut off instead of rounded
round4_down(sc) == sc - (sc % 10)

\* round(score, 4) on a score counted in units of 0.00001: to the nearest
\* multiple of 10, an exact half going to the even one
round4(sc) ==
    LET r == sc % 10
        lo == sc - r
    IN  IF r < 5 THEN lo
        ELSE IF r > 5 THEN lo + 10
        ELSE IF (lo \div 10) % 2 = 0 THEN lo ELSE lo + 10

\* Scores of the best neighbour: every score near the threshold and a few
\* others.  Of the scores halfway between two 4-decimal values only those
\* a float holds exactly (multiples of 1/32) are kept: for the others the
\* float is off the half and round() goes by the float.
Scores ==
    {sc \in ((SIMILARITY_THRESHOLD - ScoreWindow) .. (SIMILARITY_THRESHOLD + ScoreWindow))
            \cup {-20004, 0, 3125, 59996, 60000, 100000} :
        sc % 10 = 5 => sc % 3125 = 0}

NoNeighbour == [found |-> FALSE, score |-> 0, book |-> <<>>, chapter |-> 0,
                verse |-> 0, text |-> ""]

Neighbours ==
    {NoNeighbour} \cup
    [found : {TRUE}, score : Scores, book : {<<"a">>}, chapter : {3, 10},
     verse : {16}, text : {"t"}]

\* f"{book} {chapter}:{verse}", as the sequence of its pieces
reference_of(n) == n.book \o <<" ">> \o Dec(n.chapter) \o <<":">> \o Dec(n.verse)

NoResponse == [status |-> "none", match |-> FALSE, score |-> 0,
               reference |-> <<>>, text |-> "", message |-> ""]

Result(m, sc, ref, txt, msg) ==
    [status |-> "ok", match |-> m, score |-> sc, reference |-> ref,
     text |-> txt, message |-> msg]

\* the exception a failed search raises
Raised == [NoResponse EXCEPT !.status = "error"]

\* (mutant) an index without a neighbour for the quote is reported as an error
search_verse_raising(q, n, up, enc) ==
    IF q = <<>> \/ strip(q) = <<>>
    THEN [ans |-> Result(FALSE, 0, <<>>, "", "Empty quote provided"),
          embed |-> 0, query |-> 0]
    ELSE IF ~enc
    THEN [ans |-> Raised, embed |-> 1, query |-> 0]
    ELSE IF ~up \/ ~n.found
    THEN [ans |-> Raised, embed |-> 1, query |-> 1]
    ELSE LET is_match == n.score >= SIMILARITY_THRESHOLD
         IN  [ans |-> Result(is_match, round4(n.score), reference_of(n), n.text,
                             IF is_match THEN "None" ELSE "Low similarity score"),
              embed |-> 1, query |-> 1]

\* (mutant) a failure of the embedding or of the search is answered as a
\* quote that did not match
search_verse_swallowing(q, n, up, enc) ==
    IF q = <<>> \/ strip(q) = <<>>
    THEN [ans |-> Result(FALSE, 0, <<>>, "", "Empty quote provided"),
          embed |-> 0, query |-> 0]
    ELSE IF ~enc
    THEN [ans |-> Result(FALSE, 0, <<>>, "", "Search failed"),
          embed |-> 1, query |-> 0]
    ELSE IF ~up
    THEN [ans |-> Result(FALSE, 0, <<>>, "", "Search failed"),
          embed |-> 1, query |-> 1]
    ELSE IF n.found
    THEN LET is_match == n.score >= SIMILARITY_THRESHOLD
         IN  [ans |-> Result(is_match, round4(n.score), reference_of(n), n.text,
                             IF is_match THEN "None" ELSE "Low similarity score"),
              embed |-> 1, query |-> 1]
    ELSE [ans |-> Result(FALSE, 0, <<>>, "", "No verses found in database"),
          embed |-> 1, query |-> 1]

\* vector_store.search_verse(client, model, quote); enc: model.encode returns
\* a vector, up: client.search answers.
\* ans is the result, embed and query the calls made.
search_verse(q, n, up, enc) ==
    IF q = <<>> \/ strip(q) = <<>>
    THEN [ans |-> Result(FALSE, 0, <<>>, "", "Empty quote provided"),
          embed |-> 0, query |-> 0]
    ELSE IF ~enc
    THEN [ans |-> Raised, embed |-> 1, query |-> 0]
    ELSE IF ~up
    THEN [ans |-> Raised, embed |-> 1, query |-> 1]
    ELSE IF n.found
    THEN LET is_match == n.score >= SIMILARITY_THRESHOLD
         IN  [ans |-> Result(is_match, round4(n.score), reference_of(n), n.text,
                             IF is_match THEN "None" ELSE "Low similarity score"),
              embed |-> 1, query |-> 1]
    ELSE [ans |-> Result(FALSE, 0, <<>>, "", "No verses found in database"),
          embed |-> 1, query |-> 1]

\* (mutant) a score equal to the threshold does not match
search_verse_pinecone_strict(q, n, up, enc) ==
    IF ~enc
    THEN [ans |-> Raised, embed |-> 1, query |-> 0]
    ELSE IF ~up
    THEN [ans |-> Raised, embed |-> 1, query |-> 1]
    ELSE IF ~n.found
    THEN [ans |-> Result(FALSE, 0, <<"Unknown">>, "No matching verse found",
                         "No similar Bible verse found."),
          embed |-> 1, query |-> 1]
    ELSE LET is_match == n.score > pinecone_threshold
         IN  [ans |-> Result(is_match, round4(n.score), reference_of(n), n.text,
                             IF is_match THEN "Strong match found"
                             ELSE IF n.score >= possible_threshold
                                  THEN "Possible match"
                                  ELSE "Low similarity score"),
              embed |-> 1, query |-> 1]

\* (mutant) a neighbour below the threshold is returned without its reference
\* and text
search_verse_pinecone_unmatched_blank(q, n, up, enc) ==
    IF ~enc
    THEN [ans |-> Raised, embed |-> 1, query |-> 0]
    ELSE IF ~up
    THEN [ans |-> Raised, embed |-> 1, query |-> 1]
    ELSE IF ~n.found
    THEN [ans |-> Result(FALSE, 0, <<"Unknown">>, "No matching verse found",
                         "No similar Bible verse found."),
          embed |-> 1, query |-> 1]
    ELSE LET is_match == n.score >= pinecone_threshold
         IN  [ans |-> Result(is_match, round4(n.score),
                             IF is_match THEN reference_of(n) ELSE <<"Unknown">>,
                             IF is_match THEN n.text ELSE "",
                             IF is_match THEN "Strong match found"
                             ELSE IF n.score >= possible_threshold
                                  THEN "Possible match"
                                  ELSE "Low similarity score"),
              embed |-> 1, query |-> 1]

\* pinecone_store.search_verse_pinecone(query_text, model)
search_verse_pinecone(q, n, up, enc) ==
    IF ~enc
    THEN [ans |-> Raised, embed |-> 1, query |-> 0]
    ELSE IF ~up
    THEN [ans |-> Raised, embed |-> 1, query |-> 1]
    ELSE IF ~n.found
    THEN [ans |-> Result(FALSE, 0, <<"Unknown">>, "No matching verse found",
                         "No similar Bible verse found."),
          embed |-> 1, query |-> 1]
    ELSE LET is_match == n.score >= pinecone_threshold
         IN  [ans |-> Result(is_match, round4(n.score), reference_of(n), n.text,
                             IF is_match THEN "Strong match found"
                             ELSE IF n.score >= possible_threshold
                                  THEN "Possible match"
                                  ELSE "Low similarity score"),
              embed |-> 1, query |-> 1]

\* no query is being answered
MatchIdle ==
    /\ backend = "none"
    /\ quote = <<>>
    /\ neighbour = NoNeighbour
    /\ reachable = TRUE
    /\ encodes = TRUE
    /\ response = NoResponse
    /\ calls = [embed |-> 0, query |-> 0]

\* GET /health: not yet asked, answered 200 "healthy", answered 503
NoHealth == [code |-> 0, status |-> ""]

Healthy == [code |-> 200, status |-> "healthy"]

Unavailable == [code |-> 503, status |-> ""]

\* the answer to a request that fails validation
Invalid == [NoResponse EXCEPT !.status = "invalid"]

\* the service is not running
\* the environment of a service: get_model loads the model (load),
\* create_index_if_not_exists reaches Pinecone (conn), get_index_stats reads
\* the count (stats)
Envs == [load : BOOLEAN, conn : BOOLEAN, stats : BOOLEAN]

EnvUp == [load |-> TRUE, conn |-> TRUE, stats |-> TRUE]

ServiceIdle ==
    /\ app = "none"
    /\ env = EnvUp
    /\ model_loaded = FALSE
    /\ vector_count = 0
    /\ written = FALSE
    /\ health = NoHealth
    /\ api_key = FALSE
    /\ pinecone_ready = FALSE
    /\ population_in_progress = FALSE
    /\ tasks = 0
    /\ running = 0
    /\ http_status = 0

\* no batch upload is under way
CallIdle ==
    /\ caller = "none"
    /\ budget = 0
    /\ tries = 0
    /\ bpc = "idle"
    /\ upserts = 0
    /\ sleeps = 0
    /\ returned = "none"

\* load_and_embed has not been invoked and no local collection exists
LocalIdle ==
    /\ collection_exists = FALSE
    /\ points = {}
    /\ lpc = "idle"
    /\ force_reload = FALSE
    /\ prev = "none"

Go(p, c) ==
    /\ pc' = [pc EXCEPT ![p] = c.pc]
    /\ i' = [i EXCEPT ![p] = c.i]
    /\ result' = [result EXCEPT ![p] = c.result]
    /\ retry_at' = [retry_at EXCEPT ![p] = IF c.pc = "retry" THEN 1 ELSE 0]
    /\ attempt' = [attempt EXCEPT ![p] = 0]

Finish(p, r) ==
    Go(p, [pc |-> "done", i |-> i[p], result |-> r])

Bool(b) == IF b THEN "true" ELSE "false"

Ended == {q \in Procs : pc[q] \in {"done", "interrupted"}}

\* history bookkeeping of a run's first step
Begin(p) == ended_before' = [ended_before EXCEPT ![p] = Ended]

\* "credentials": PINECONE_API_KEY is missing or is not accepted;
\* "dimension": the index bible-verses exists with a dimension other than 384.
ConfigErrors == {"credentials", "dimension"}

InitRuns ==
    /\ kind \in Kinds
    /\ total \in CorpusSizes(kind)
    /\ invalid \in InvalidChoices(total)
    \* a new index, or one that an earlier complete load of the corpus left
    /\ index \in {{}, Valid}
    /\ pc = [p \in Procs |-> "idle"]
    /\ current_count = [p \in Procs |-> 0]
    /\ progress_ok = [p \in Procs |-> FALSE]
    /\ resume_from = [p \in Procs |-> 0]
    /\ i = [p \in Procs |-> 0]
    /\ attempt = [p \in Procs |-> 0]
    /\ failed_batches = [p \in Procs |-> <<>>]
    /\ retry_at = [p \in Procs |-> 0]
    /\ successful_uploads = [p \in Procs |-> 0]
    /\ final_count = [p \in Procs |-> -1]
    /\ failed = [p \in Procs |-> 0]
    /\ result = [p \in Procs |-> "none"]
    /\ final_read = [p \in Procs |-> "none"]
    /\ attempted = [p \in Procs |-> {}]
    /\ upsert_failed = [p \in Procs |-> FALSE]
    /\ ended_before = [p \in Procs |-> {}]
    /\ retried = [p \in Procs |-> <<>>]
    /\ counted = [p \in Procs |-> <<>>]

\* a deployment whose credentials and index are in order
Init ==
    /\ config_error = "none"
    /\ InitRuns
    /\ IdIdle
    /\ LocalIdle
    /\ MatchIdle
    /\ ServiceIdle
    /\ CallIdle

\* ------------------------------------------------------------------ actions
\* standalone_upload.main up to the first batch: get_current_progress turns
\* a failed read into 0.
StandaloneStart(p) ==
    /\ config_error # "credentials"
    /\ kind = "standalone"
    /\ pc[p] = "idle"
    /\ Begin(p)
    /\ \E ok \in BOOLEAN :
         LET n == IF ok THEN Cardinality(index) ELSE 0
         IN  /\ current_count' = [current_count EXCEPT ![p] = n]
             /\ progress_ok' = [progress_ok EXCEPT ![p] = ok]
             /\ IF n >= total
                THEN /\ Finish(p, "true")
                     /\ UNCHANGED resume_from
                ELSE /\ resume_from' = [resume_from EXCEPT ![p] = find_resume_point(n)]
                     /\ Go(p, LoopFrom(kind, find_resume_point(n), <<>>, 0))
    /\ UNCHANGED <<outside, retried, counted, kind, total, invalid, index, failed_batches,
                   successful_uploads, final_count, failed, final_read,
                   attempted, upsert_failed>>

\* upload_all.upload_bible_to_pinecone up to the first batch: a failed read of
\* the index stats sets current_count = 0 and the run goes on.
UploadAllStart(p) ==
    /\ config_error # "credentials"
    /\ kind = "upload_all"
    /\ pc[p] = "idle"
    /\ Begin(p)
    /\ \E ok \in BOOLEAN :
         LET n == IF ok THEN Cardinality(index) ELSE 0
         IN  /\ current_count' = [current_count EXCEPT ![p] = n]
             /\ progress_ok' = [progress_ok EXCEPT ![p] = ok]
             /\ IF ok /\ n >= total
                THEN /\ Finish(p, "true")
                     /\ UNCHANGED resume_from
                ELSE /\ resume_from' = [resume_from EXCEPT ![p] = upload_all_resume(n)]
                     /\ Go(p, LoopFrom(kind, upload_all_resume(n), <<>>, 0))
    /\ UNCHANGED <<outside, retried, counted, kind, total, invalid, index, failed_batches,
                   successful_uploads, final_count, failed, final_read,
                   attempted, upsert_failed>>

\* simple_upload.upload_remaining_verses, whole: check_progress compares with
\* the fixed target 31102; below it the run loads the corpus and then imports
\* upload_verses_batch from pinecone_store, which does not define it, so the
\* ImportError handler returns False before the upload loop.
SimpleUploadRun(p) ==
    /\ config_error # "credentials"
    /\ kind = "simple_upload"
    /\ pc[p] = "idle"
    /\ Begin(p)
    /\ \E ok \in BOOLEAN :
         LET n == IF ok THEN Cardinality(index) ELSE 0
         IN  /\ current_count' = [current_count EXCEPT ![p] = n]
             /\ progress_ok' = [progress_ok EXCEPT ![p] = ok]
             /\ Finish(p, Bool(ok /\ n >= SIMPLE_TARGET))
    /\ UNCHANGED <<outside, retried, counted, kind, total, invalid, index, resume_from, failed_batches,
                   successful_uploads, final_count, failed, final_read,
                   attempted, upsert_failed>>

\* app.main.populate_pinecone_robust up to the first batch of
\* upload_verses_robust: get_index_stats turns a failed read into {} and the
\* count into 0; the upload always starts at position 0.
AppMainStart(p) ==
    /\ config_error # "credentials"
    /\ kind = "app_main"
    /\ pc[p] = "idle"
    /\ Begin(p)
    /\ \E ok \in BOOLEAN :
         LET n == IF ok THEN Cardinality(index) ELSE 0
         IN  /\ current_count' = [current_count EXCEPT ![p] = n]
             /\ progress_ok' = [progress_ok EXCEPT ![p] = ok]
             /\ IF n >= READY_COUNT
                THEN Finish(p, "true")
                ELSE Go(p, LoopFrom(kind, 0, <<>>, 0))
    /\ UNCHANGED <<outside, retried, counted, kind, total, invalid, index, resume_from, failed_batches,
                   successful_uploads, final_count, failed, final_read,
                   attempted, upsert_failed>>

\* pinecone_store.upload_verses_to_pinecone up to its first upsert: no size is
\* read, and a record missing a field raises out of the loop (return False).
PineconeStoreStart(p) ==
    /\ config_error # "credentials"
    /\ kind = "pinecone_store"
    /\ pc[p] = "idle"
    /\ Begin(p)
    /\ Go(p, LoopFrom(kind, 0, <<>>, 0))
    /\ UNCHANGED <<outside, retried, counted, kind, total, invalid, index, current_count, progress_ok,
                   resume_from, failed_batches, successful_uploads,
                   final_count, failed, final_read, attempted, upsert_failed>>

\* (mutant) a batch uploaded in the main pass is recorded as failed as well,
\* so standalone's retry pass uploads and counts it again
UpsertOkRequeues(p) ==
    /\ pc[p] = "upsert"
    /\ config_error # "dimension"
    /\ LET v == Vectors(kind, i[p])
           succ == successful_uploads[p] + Cardinality(v)
           fb == IF kind = "standalone"
                 THEN Append(failed_batches[p], i[p])
                 ELSE failed_batches[p]
       IN  /\ index' = index \cup v
           /\ successful_uploads' = [successful_uploads EXCEPT ![p] = succ]
           /\ failed_batches' = [failed_batches EXCEPT ![p] = fb]
           /\ failed' = [failed EXCEPT ![p] =
                            IF kind = "upload_all"
                            THEN @ + Cardinality(Batch(kind, i[p]) \cap invalid)
                            ELSE @]
           /\ Go(p, LoopFrom(kind, i[p] + batch_size(kind), fb, succ))
    /\ attempted' = [attempted EXCEPT ![p] = @ \cup {i[p]}]
    /\ counted' = [counted EXCEPT ![p] = Append(@, i[p])]
    /\ UNCHANGED <<outside, retried, kind, total, invalid, current_count, progress_ok,
                   resume_from, final_count, final_read,
                   upsert_failed, ended_before>>

\* One index.upsert(vectors=...) of the main pass that succeeds: the entries
\* are stored under their ids and the loop moves to the next batch.
UpsertOk(p) ==
    /\ pc[p] = "upsert"
    /\ config_error # "dimension"
    /\ LET v == Vectors(kind, i[p])
           succ == successful_uploads[p] + Cardinality(v)
       IN  /\ index' = index \cup v
           /\ successful_uploads' = [successful_uploads EXCEPT ![p] = succ]
           /\ failed' = [failed EXCEPT ![p] =
                            IF kind = "upload_all"
                            THEN @ + Cardinality(Batch(kind, i[p]) \cap invalid)
                            ELSE @]
           /\ Go(p, LoopFrom(kind, i[p] + batch_size(kind), failed_batches[p], succ))
    /\ attempted' = [attempted EXCEPT ![p] = @ \cup {i[p]}]
    /\ counted' = [counted EXCEPT ![p] = Append(@, i[p])]
    /\ UNCHANGED <<outside, retried, kind, total, invalid, current_count, progress_ok,
                   resume_from, failed_batches, final_count, final_read,
                   upsert_failed, ended_before>>

\* One index.upsert of the main pass that raises: retried until max_retries
\* attempts have failed, then the loader's exhaustion branch runs.
UpsertFail(p) ==
    /\ pc[p] = "upsert"
    /\ upsert_failed' = [upsert_failed EXCEPT ![p] = TRUE]
    /\ attempted' = [attempted EXCEPT ![p] = @ \cup {i[p]}]
    /\ IF attempt[p] + 1 < max_retries(kind)
       THEN /\ attempt' = [attempt EXCEPT ![p] = @ + 1]
            /\ UNCHANGED <<pc, i, result, retry_at, failed_batches, failed>>
       ELSE LET x == OnExhausted(kind, i[p], failed_batches[p], successful_uploads[p])
            IN  /\ failed_batches' = [failed_batches EXCEPT ![p] = x.fb]
                /\ failed' = [failed EXCEPT ![p] =
                                 IF kind = "upload_all"
                                 THEN @ + Cardinality(Batch(kind, i[p]))
                                 ELSE @]
                /\ Go(p, x.ctl)
    /\ UNCHANGED <<outside, retried, counted, kind, total, invalid, index, current_count, progress_ok,
                   resume_from, successful_uploads, final_count, final_read,
                   ended_before>>

\* history bookkeeping: the first upsert of a failed batch's retry round
RetryRound(p) ==
    retried' = [retried EXCEPT ![p] =
                   IF attempt[p] = 0
                   THEN Append(@, failed_batches[p][retry_at[p]])
                   ELSE @]

\* (mutant) the retry pass steps over every other failed batch
AfterRetrySkip(p, r) ==
    IF r + 1 < Len(failed_batches[p])
    THEN /\ retry_at' = [retry_at EXCEPT ![p] = r + 2]
         /\ attempt' = [attempt EXCEPT ![p] = 0]
         /\ UNCHANGED pc
    ELSE /\ retry_at' = [retry_at EXCEPT ![p] = 0]
         /\ attempt' = [attempt EXCEPT ![p] = 0]
         /\ pc' = [pc EXCEPT ![p] = "final"]

\* Where standalone's retry pass goes after the failed batch at position r.
AfterRetry(p, r) ==
    IF r < Len(failed_batches[p])
    THEN /\ retry_at' = [retry_at EXCEPT ![p] = r + 1]
         /\ attempt' = [attempt EXCEPT ![p] = 0]
         /\ UNCHANGED pc
    ELSE /\ retry_at' = [retry_at EXCEPT ![p] = 0]
         /\ attempt' = [attempt EXCEPT ![p] = 0]
         /\ pc' = [pc EXCEPT ![p] = "final"]

\* standalone's retry pass: an upsert of a failed batch that succeeds.
RetryOk(p) ==
    /\ pc[p] = "retry"
    /\ config_error # "dimension"
    /\ LET v == Vectors(kind, failed_batches[p][retry_at[p]])
       IN  /\ index' = index \cup v
           /\ successful_uploads' = [successful_uploads EXCEPT ![p] = @ + Cardinality(v)]
    /\ AfterRetry(p, retry_at[p])
    /\ RetryRound(p)
    /\ counted' = [counted EXCEPT ![p] = Append(@, failed_batches[p][retry_at[p]])]
    /\ UNCHANGED <<outside, kind, total, invalid, current_count, progress_ok,
                   resume_from, i, failed_batches, final_count, failed, result,
                   final_read, attempted, upsert_failed, ended_before>>

\* standalone's retry pass: an upsert that raises; after 3 failed attempts the
\* batch is given up and the pass moves on.
RetryFail(p) ==
    /\ pc[p] = "retry"
    /\ upsert_failed' = [upsert_failed EXCEPT ![p] = TRUE]
    /\ IF attempt[p] + 1 < retry_pass_retries
       THEN /\ attempt' = [attempt EXCEPT ![p] = @ + 1]
            /\ UNCHANGED <<pc, retry_at>>
       ELSE AfterRetry(p, retry_at[p])
    /\ RetryRound(p)
    /\ UNCHANGED <<outside, counted, kind, total, invalid, index, current_count, progress_ok,
                   resume_from, i, failed_batches, successful_uploads,
                   final_count, failed, result, final_read, attempted,
                   ended_before>>

\* The final verification: the index size is read again and compared with 95%
\* of the corpus size.  A failed read raises in standalone (return False),
\* counts as 0 in upload_all and in app.main's get_index_stats.
FinalCheck(p) ==
    /\ pc[p] = "final"
    /\ \E ok \in BOOLEAN :
         LET n == IF ok THEN Cardinality(index)
                  ELSE IF kind = "standalone" THEN -1 ELSE 0
         IN  /\ final_count' = [final_count EXCEPT ![p] = n]
             /\ final_read' = [final_read EXCEPT ![p] = IF ok THEN "ok" ELSE "failed"]
             /\ Finish(p, Bool(n >= 0 /\ Enough(n, total)))
    /\ UNCHANGED <<outside, retried, counted, kind, total, invalid, index, current_count, progress_ok,
                   resume_from, failed_batches, successful_uploads, failed,
                   attempted, upsert_failed, ended_before>>

\* The process is killed while its run is under way (nothing in the loaders
\* survives it: the run takes no further step).
Interrupt(p) ==
    /\ pc[p] \in {"upsert", "retry", "final"}
    /\ pc' = [pc EXCEPT ![p] = "interrupted"]
    /\ UNCHANGED <<outside, retried, counted, kind, total, invalid, index, current_count, progress_ok,
                   resume_from, i, attempt, failed_batches, retry_at,
                   successful_uploads, final_count, failed, result, final_read,
                   attempted, upsert_failed, ended_before>>

Next ==
    \E p \in Procs :
        \/ StandaloneStart(p)
        \/ UploadAllStart(p)
        \/ SimpleUploadRun(p)
        \/ AppMainStart(p)
        \/ PineconeStoreStart(p)
        \/ UpsertOk(p)
        \/ UpsertFail(p)
        \/ RetryOk(p)
        \/ RetryFail(p)
        \/ FinalCheck(p)
        \/ Interrupt(p)

Spec == Init /\ [][Next]_vars

\* ---------------------------------------------------- the resume offset alone
\* Every index size up to MaxCount is given to the loader's resume computation.
InitResume ==
    /\ config_error = "none"
    /\ kind \in BuilderKinds
    /\ total = MaxCorpus
    /\ invalid = {}
    /\ index = {}
    /\ pc = [p \in Procs |-> "idle"]
    /\ current_count \in {[p \in Procs |-> n] : n \in 0 .. MaxCount}
    /\ progress_ok = [p \in Procs |-> TRUE]
    /\ resume_from = [p \in Procs |-> 0]
    /\ i = [p \in Procs |-> 0]
    /\ attempt = [p \in Procs |-> 0]
    /\ failed_batches = [p \in Procs |-> <<>>]
    /\ retry_at = [p \in Procs |-> 0]
    /\ successful_uploads = [p \in Procs |-> 0]
    /\ final_count = [p \in Procs |-> -1]
    /\ failed = [p \in Procs |-> 0]
    /\ result = [p \in Procs |-> "none"]
    /\ final_read = [p \in Procs |-> "none"]
    /\ attempted = [p \in Procs |-> {}]
    /\ upsert_failed = [p \in Procs |-> FALSE]
    /\ ended_before = [p \in Procs |-> {}]
    /\ retried = [p \in Procs |-> <<>>]
    /\ counted = [p \in Procs |-> <<>>]
    /\ IdIdle
    /\ LocalIdle
    /\ MatchIdle
    /\ ServiceIdle
    /\ CallIdle

ResumePoint(p) ==
    /\ pc[p] = "idle"
    /\ pc' = [pc EXCEPT ![p] = "resumed"]
    /\ resume_from' = [resume_from EXCEPT ![p] = ResumeOf(kind, current_count[p])]
    /\ UNCHANGED <<outside, retried, counted, kind, total, invalid, index, current_count, progress_ok, i,
                   attempt, failed_batches, retry_at, successful_uploads,
                   final_count, failed, result, final_read, attempted,
                   upsert_failed, ended_before>>

NextResume == \E p \in Procs : ResumePoint(p)

SpecResume == InitResume /\ [][NextResume]_vars

\* ------------------------------------------- a misconfigured deployment
\* The loaders run where the credentials or the index are not in order.
InitConfig ==
    /\ config_error \in ConfigErrors
    /\ InitRuns
    /\ IdIdle
    /\ LocalIdle
    /\ MatchIdle
    /\ ServiceIdle
    /\ CallIdle

\* The run cannot connect: get_pinecone_client returns (None, None) in
\* standalone_upload (main returns False), list_indexes raises in upload_all
\* (return False), check_progress returns None in simple_upload (return
\* False), create_index_if_not_exists raises in app.main (population given up)
\* and in pinecone_store (return False).  No size is read, no upsert issued.
ConnectFail(p) ==
    /\ config_error = "credentials"
    /\ pc[p] = "idle"
    /\ Begin(p)
    /\ Finish(p, "false")
    /\ UNCHANGED <<outside, retried, counted, kind, total, invalid, index, current_count,
                   progress_ok, resume_from, failed_batches,
                   successful_uploads, final_count, failed, final_read,
                   attempted, upsert_failed>>

\* With the index's dimension wrong every upsert raises: the steps in which an
\* upsert succeeds do not occur.
NextConfig ==
    \E p \in Procs :
        \/ ConnectFail(p)
        \/ StandaloneStart(p)
        \/ UploadAllStart(p)
        \/ SimpleUploadRun(p)
        \/ AppMainStart(p)
        \/ PineconeStoreStart(p)
        \/ UpsertFail(p)
        \/ RetryFail(p)
        \/ FinalCheck(p)
        \/ Interrupt(p)

SpecConfig == InitConfig /\ [][NextConfig]_vars

\* ------------------------------------------------------ the entry id alone
\* no loader is running
RunsIdle ==
    /\ config_error = "none"
    /\ kind = "standalone"
    /\ index = {}
    /\ pc = [p \in Procs |-> "idle"]
    /\ current_count = [p \in Procs |-> 0]
    /\ progress_ok = [p \in Procs |-> FALSE]
    /\ resume_from = [p \in Procs |-> 0]
    /\ i = [p \in Procs |-> 0]
    /\ attempt = [p \in Procs |-> 0]
    /\ failed_batches = [p \in Procs |-> <<>>]
    /\ retry_at = [p \in Procs |-> 0]
    /\ successful_uploads = [p \in Procs |-> 0]
    /\ final_count = [p \in Procs |-> -1]
    /\ failed = [p \in Procs |-> 0]
    /\ result = [p \in Procs |-> "none"]
    /\ final_read = [p \in Procs |-> "none"]
    /\ attempted = [p \in Procs |-> {}]
    /\ upsert_failed = [p \in Procs |-> FALSE]
    /\ ended_before = [p \in Procs |-> {}]
    /\ retried = [p \in Procs |-> <<>>]
    /\ counted = [p \in Procs |-> <<>>]

LoadersIdle ==
    /\ RunsIdle
    /\ total = MaxCorpus
    /\ invalid = {}

\* One record is loaded twice, from two positions of the corpus, by one loader.
InitId ==
    /\ LoadersIdle
    /\ loader \in IdLoaders
    /\ verse \in [book : Books, chapter : 1 .. MaxNumber, verse : 1 .. MaxNumber]
    /\ at \in (0 .. MaxPos) \X (0 .. MaxPos)
    /\ ids = <<>>
    /\ LocalIdle
    /\ MatchIdle
    /\ ServiceIdle
    /\ CallIdle

\* the loader builds the record's entry at each of the two loads
DeriveIds ==
    /\ ids = <<>>
    /\ ids' = <<point_id(loader, at[1], verse), point_id(loader, at[2], verse)>>
    /\ UNCHANGED <<loader_vars, call_vars, config_error, service_vars, loader, verse, at, local_vars,
                   match_vars>>

NextId == DeriveIds

SpecId == InitId /\ [][NextId]_vars

\* ------------------------------------------------------ the local loader
\* bible_loader.load_and_embed is invoked, one invocation at a time, over a
\* corpus file of up to MaxLocalCorpus records; the query path's get_client
\* may open the store at any time.
InitLocal ==
    /\ RunsIdle
    /\ total \in 0 .. MaxLocalCorpus
    /\ invalid \in SUBSET Verses
    /\ IdIdle
    /\ LocalIdle
    /\ MatchIdle
    /\ ServiceIdle
    /\ CallIdle

LoadEnded == lpc \in {"done", "returned", "exited", "interrupted"}

\* load_and_embed up to create_collection: an existing collection is deleted
\* under force_reload and otherwise ends the invocation ("already loaded").
LoadBegin ==
    /\ lpc = "idle" \/ LoadEnded
    /\ prev' = lpc
    /\ \E force \in BOOLEAN :
         /\ force_reload' = force
         /\ IF collection_exists /\ ~force
            THEN /\ lpc' = "returned"
                 /\ UNCHANGED <<collection_exists, points>>
            ELSE /\ lpc' = "created"
                 /\ collection_exists' = TRUE
                 /\ points' = {}
    /\ UNCHANGED <<loader_vars, call_vars, config_error, service_vars, id_vars, match_vars>>

\* load_and_embed from reading the corpus file to the single upsert: a missing
\* or empty file, a corpus without a valid record, or any exception (a failed
\* upsert) exits with status 1.
LoadUpsert ==
    /\ lpc = "created"
    /\ \E file_ok, upsert_ok \in BOOLEAN :
         IF file_ok /\ total > 0 /\ Valid # {} /\ upsert_ok
         THEN /\ points' = points \cup {point_id("bible_loader", n, verse) : n \in Valid}
              /\ lpc' = "done"
         ELSE /\ lpc' = "exited"
              /\ UNCHANGED points
    /\ UNCHANGED <<loader_vars, call_vars, config_error, service_vars, id_vars, match_vars, collection_exists,
                   force_reload, prev>>

\* the invocation is killed between create_collection and upsert
LoadInterrupt ==
    /\ lpc = "created"
    /\ lpc' = "interrupted"
    /\ UNCHANGED <<loader_vars, call_vars, config_error, service_vars, id_vars, match_vars, collection_exists,
                   points, force_reload, prev>>

\* vector_store.get_client: creates the collection when it does not exist
get_client ==
    /\ collection_exists' = TRUE
    /\ UNCHANGED <<loader_vars, call_vars, config_error, service_vars, id_vars, match_vars, points, lpc,
                   force_reload, prev>>

NextLocal ==
    \/ LoadBegin
    \/ LoadUpsert
    \/ LoadInterrupt
    \/ get_client

SpecLocal == InitLocal /\ [][NextLocal]_vars

\* ------------------------------------------------ the Match Engine alone
\* One query: a quote, a backend, and the best neighbour the index holds for
\* it (none when the index has no entry).
InitMatch ==
    /\ LoadersIdle
    /\ IdIdle
    /\ LocalIdle
    /\ backend \in {"qdrant", "pinecone"}
    /\ quote \in Quotes
    /\ neighbour \in Neighbours
    /\ reachable \in BOOLEAN
    /\ encodes \in BOOLEAN
    /\ response = NoResponse
    /\ calls = [embed |-> 0, query |-> 0]
    /\ ServiceIdle
    /\ CallIdle

Answer(r) ==
    /\ response' = r.ans
    /\ calls' = [embed |-> r.embed, query |-> r.query]

\* the local backend answers the query
SearchVerse ==
    /\ backend = "qdrant"
    /\ response = NoResponse
    /\ Answer(search_verse(quote, neighbour, reachable, encodes))
    /\ UNCHANGED <<loader_vars, call_vars, config_error, service_vars, id_vars, local_vars,
                   backend, quote, neighbour, reachable, encodes>>

\* the Pinecone backend answers the query
SearchVersePinecone ==
    /\ backend = "pinecone"
    /\ response = NoResponse
    /\ Answer(search_verse_pinecone(quote, neighbour, reachable, encodes))
    /\ UNCHANGED <<loader_vars, call_vars, config_error, service_vars, id_vars, local_vars,
                   backend, quote, neighbour, reachable, encodes>>

NextMatch == SearchVerse \/ SearchVersePinecone

SpecMatch == InitMatch /\ [][NextMatch]_vars

\* ------------------------------------------------------------ the service
\* The service modules app.main, app.main_optimized and app.main_pinecone
\* after their startup_event.  The Pinecone index is the number of vectors
\* it reports (vector_count).
Apps == {"main", "main_optimized", "main_pinecone"}

\* len(verses_data) of data/bible_complete.json, the complete Bible
ServiceCorpus == SIMPLE_TARGET

\* the sizes of the Pinecone index: empty, one batch, the whole corpus
ServiceCounts == {0, 100, ServiceCorpus}

\* a quote of n characters
Long(n) == [j \in 1 .. n |-> "x"]

\* the requests the service is given: the quotes of at most one character,
\* one of max_length characters and one of a character more; and an index
\* that has no neighbour, one below the threshold or one of score 1
ServiceQuotes ==
    {q \in Quotes : Len(q) <= 1} \cup {Long(max_length), Long(max_length + 1)}

ServiceNeighbours ==
    {n \in Neighbours :
        n.found => /\ n.chapter = 3
                   /\ n.score \in {59996, 100000}}

\* (mutant) a quote of exactly max_length characters is rejected
validate_strict(q) == Len(q) < 1000

\* the validation of Query.quote (min_length=0, max_length=1000)
validate(q) == Len(q) >= 0 /\ Len(q) <= max_length

\* what the model and the index do on a query: the index answers and the
\* model embeds, the index fails, the model fails
ServiceFailures == {<<TRUE, TRUE>>, <<FALSE, TRUE>>, <<TRUE, FALSE>>}

\* a request and its environment: the quote, the neighbour the index holds
\* for it and the failures; the long quotes come with an index that has no
\* neighbour and a model and an index that work
ServiceRequests ==
    {r \in ServiceQuotes \X ServiceNeighbours \X ServiceFailures :
        Len(r[1]) > 1 => r[2] = NoNeighbour /\ r[3] = <<TRUE, TRUE>>}

\* what the environment does to one initialization or population run:
\* get_model loads the model (load), Pinecone is reached (conn),
\* get_index_stats reads the count (stats; a failed read returns {} and reads
\* as 0), the upload goes through (success) or stops with the index at final
Outcomes ==
    [load : BOOLEAN, conn : BOOLEAN, stats : BOOLEAN, success : BOOLEAN,
     final : ServiceCounts]

\* stats.get('total_vectors', 0)
total_vectors(count, o) == IF o.stats THEN count ELSE 0

\* pinecone_store.upload_verses_to_pinecone: True when every batch was
\* upserted, False when an exception stopped it
upload_verses_to_pinecone(count, o) ==
    IF o.success
    THEN [success |-> TRUE, count |-> Max(count, ServiceCorpus)]
    ELSE [success |-> FALSE,
          count |-> IF o.final >= count /\ o.final < ServiceCorpus
                    THEN o.final ELSE count]

\* main.upload_verses_robust: True when no batch failed three times and at
\* least 95% of the verses were uploaded
upload_verses_robust(count, o) ==
    IF o.success /\ o.final >= count /\ Enough(o.final, ServiceCorpus)
    THEN [success |-> TRUE, count |-> o.final]
    ELSE [success |-> FALSE, count |-> IF o.final >= count THEN o.final ELSE count]

\* main.populate_pinecone_robust, from its first statement after setting
\* population_in_progress to its end
populate_pinecone_robust(ml, ready, key, count, o) ==
    IF ~ml /\ ~o.load
    THEN [model_loaded |-> FALSE, pinecone_ready |-> ready, vector_count |-> count]
    ELSE IF ~key \/ ~o.conn
    THEN [model_loaded |-> TRUE, pinecone_ready |-> ready, vector_count |-> count]
    ELSE IF total_vectors(count, o) >= READY_COUNT
    THEN [model_loaded |-> TRUE, pinecone_ready |-> TRUE, vector_count |-> count]
    ELSE LET u == upload_verses_robust(count, o)
         IN  [model_loaded |-> TRUE,
              pinecone_ready |->
                  (ready \/ (u.success /\ Enough(total_vectors(u.count, o),
                                                 ServiceCorpus))),
              vector_count |-> u.count]

\* main_optimized.populate_pinecone_background, likewise
populate_pinecone_background(ml, ready, key, count, o) ==
    IF ~ml /\ ~o.load
    THEN [model_loaded |-> FALSE, pinecone_ready |-> ready, vector_count |-> count]
    ELSE IF ~key \/ ~o.conn
    THEN [model_loaded |-> TRUE, pinecone_ready |-> ready, vector_count |-> count]
    ELSE IF total_vectors(count, o) = 0
    THEN LET u == upload_verses_to_pinecone(count, o)
         IN  [model_loaded |-> TRUE, pinecone_ready |-> (ready \/ u.success),
              vector_count |-> u.count]
    ELSE [model_loaded |-> TRUE, pinecone_ready |-> TRUE, vector_count |-> count]

\* main_pinecone.initialize_components; created: get_client was called (it
\* creates the local collection when there is none), raised: it raised
initialize_components(ml, ready, key, count, o) ==
    IF ~ml /\ ~o.load
    THEN [model_loaded |-> FALSE, pinecone_ready |-> ready, vector_count |-> count,
          created |-> FALSE, raised |-> TRUE]
    ELSE IF ready
    THEN [model_loaded |-> TRUE, pinecone_ready |-> TRUE, vector_count |-> count,
          created |-> FALSE, raised |-> FALSE]
    ELSE IF ~o.conn
    THEN [model_loaded |-> TRUE, pinecone_ready |-> FALSE, vector_count |-> count,
          created |-> FALSE, raised |-> TRUE]
    ELSE IF ~key
    THEN [model_loaded |-> TRUE, pinecone_ready |-> TRUE, vector_count |-> count,
          created |-> TRUE, raised |-> FALSE]
    ELSE IF total_vectors(count, o) = 0
    THEN LET u == upload_verses_to_pinecone(count, o)
         IN  [model_loaded |-> TRUE, pinecone_ready |-> u.success,
              vector_count |-> u.count, created |-> FALSE,
              raised |-> ~u.success]
    ELSE [model_loaded |-> TRUE, pinecone_ready |-> TRUE, vector_count |-> count,
          created |-> FALSE, raised |-> FALSE]

\* startup_event of the three modules.  app.main and app.main_optimized load
\* the model and, with an API key, create the population task (a failed load
\* skips the task); app.main_pinecone runs initialize_components.
InitService ==
    /\ LoadersIdle
    /\ IdIdle
    /\ MatchIdle
    /\ CallIdle
    /\ points = {}
    /\ lpc = "idle"
    /\ force_reload = FALSE
    /\ prev = "none"
    /\ app \in Apps
    /\ env = EnvUp
    /\ api_key \in BOOLEAN
    /\ population_in_progress = FALSE
    /\ running = 0
    /\ http_status = 0
    /\ written = FALSE
    /\ health = NoHealth
    /\ \E count \in ServiceCounts, o \in Outcomes :
         /\ ~api_key => count = 0
         /\ IF app = "main_pinecone"
            THEN LET c == initialize_components(FALSE, FALSE, api_key, count, o)
                 IN  /\ model_loaded = c.model_loaded
                     /\ pinecone_ready = c.pinecone_ready
                     /\ vector_count = c.vector_count
                     /\ collection_exists = c.created
                     /\ tasks = 0
            ELSE /\ model_loaded = o.load
                 /\ pinecone_ready = FALSE
                 /\ vector_count = count
                 /\ collection_exists = FALSE
                 /\ tasks = IF api_key /\ o.load THEN 1 ELSE 0

\* what /check returns while pinecone_ready is false
InitializingResult ==
    Result(FALSE, 0, <<"System Initializing">>, "Bible verse database is loading",
           "System is populating the Bible verse database")

\* the request of POST /check: the quote, and what the model and the index
\* would do with it
Request(q, n, up, enc) ==
    /\ quote' = q
    /\ neighbour' = n
    /\ reachable' = up
    /\ encodes' = enc
    /\ written' = FALSE

\* a quote that fails the validation of Query is answered 422 by the framework
\* and the handler is not called
Rejected ==
    /\ response' = Invalid
    /\ http_status' = 422
    /\ backend' = "none"
    /\ calls' = [embed |-> 0, query |-> 0]

\* POST /check of app.main and app.main_optimized, whole handler.
\* asyncio.create_task needs a running event loop in the calling thread:
\* check_quote is a plain def, which the framework runs in a worker thread,
\* where the call raises RuntimeError and the handler answers 500; called on
\* the loop's thread it creates the task (in_loop).
check_quote_of(requests) ==
    /\ app \in {"main", "main_optimized"}
    /\ \E rq \in requests,
          in_loop \in (IF pinecone_ready \/ population_in_progress
                       THEN {TRUE} ELSE BOOLEAN),
          load \in (IF model_loaded \/ ~pinecone_ready THEN {TRUE} ELSE BOOLEAN) :
        LET start == ~pinecone_ready /\ ~population_in_progress
            q == rq[1]
            n == rq[2]
            up == rq[3][1]
            enc == rq[3][2]
        IN  /\ Request(q, n, up, enc)
            /\ IF ~validate(q)
               THEN /\ Rejected
                    /\ UNCHANGED <<tasks, model_loaded, collection_exists>>
               ELSE IF start /\ ~in_loop
               THEN /\ response' = Raised
                    /\ http_status' = 500
                    /\ backend' = "none"
                    /\ calls' = [embed |-> 0, query |-> 0]
                    /\ UNCHANGED <<tasks, model_loaded, collection_exists>>
               ELSE /\ start => tasks < MaxTasks
                    /\ tasks' = IF start THEN tasks + 1 ELSE tasks
                    /\ IF ~pinecone_ready
                       THEN /\ response' = InitializingResult
                            /\ http_status' = 200
                            /\ backend' = "none"
                            /\ calls' = [embed |-> 0, query |-> 0]
                            /\ UNCHANGED <<model_loaded, collection_exists>>
                       ELSE LET failed_load == ~model_loaded /\ ~load
                                r == IF failed_load
                                     THEN [ans |-> Raised, embed |-> 0, query |-> 0]
                                     ELSE IF api_key /\ pinecone_ready
                                     THEN search_verse_pinecone(q, n, up, enc)
                                     ELSE search_verse(q, n, up, enc)
                            IN  /\ Answer(r)
                                /\ http_status' = IF r.ans.status = "error"
                                                  THEN 500 ELSE 200
                                /\ backend' = IF failed_load THEN "none"
                                              ELSE IF api_key THEN "pinecone"
                                              ELSE "qdrant"
                                /\ model_loaded' = ~failed_load
                                /\ collection_exists' =
                                      IF api_key \/ failed_load
                                      THEN collection_exists ELSE TRUE
    /\ UNCHANGED <<loader_vars, call_vars, config_error, id_vars, points, lpc,
                   force_reload, prev, app, api_key, env, pinecone_ready,
                   population_in_progress, running, vector_count, health>>

\* POST /check given any request of the service model
check_quote == check_quote_of(ServiceRequests)

\* POST /check of app.main_pinecone, whole handler: initialize_components,
\* then the search
check_quote_pinecone ==
    /\ app = "main_pinecone"
    /\ \E c \in {initialize_components(model_loaded, pinecone_ready, api_key,
                                        vector_count, o) : o \in Outcomes},
          rq \in ServiceRequests :
        /\ Request(rq[1], rq[2], rq[3][1], rq[3][2])
        /\ IF ~validate(rq[1])
           THEN /\ Rejected
                /\ UNCHANGED <<model_loaded, pinecone_ready, vector_count,
                               collection_exists>>
           ELSE LET q == rq[1]
                    n == rq[2]
                    up == rq[3][1]
                    enc == rq[3][2]
                    r == IF c.raised
                         THEN [ans |-> Raised, embed |-> 0, query |-> 0]
                         ELSE IF api_key /\ c.pinecone_ready
                         THEN search_verse_pinecone(q, n, up, enc)
                         ELSE search_verse(q, n, up, enc)
                IN  /\ model_loaded' = c.model_loaded
                    /\ pinecone_ready' = c.pinecone_ready
                    /\ vector_count' = c.vector_count
                    /\ collection_exists' =
                          (collection_exists \/ c.created
                              \/ (~c.raised /\ ~api_key))
                    /\ Answer(r)
                    /\ http_status' = IF r.ans.status = "error" THEN 500 ELSE 200
                    /\ backend' = IF c.raised THEN "none"
                                  ELSE IF api_key THEN "pinecone" ELSE "qdrant"
    /\ UNCHANGED <<loader_vars, call_vars, config_error, id_vars, points, lpc,
                   force_reload, prev, app, api_key, env, population_in_progress,
                   tasks, running, health>>

\* (mutant) /health answers 503 until the index is ready and starts the
\* population
health_check_waiting ==
    /\ app \in {"main", "main_optimized"}
    /\ health' = IF pinecone_ready
                 THEN [code |-> 200, status |-> "healthy"]
                 ELSE [code |-> 503, status |-> ""]
    /\ tasks' = IF ~pinecone_ready /\ ~population_in_progress /\ tasks < MaxTasks
                THEN tasks + 1 ELSE tasks
    /\ UNCHANGED <<loader_vars, call_vars, config_error, id_vars, local_vars, match_vars,
                   app, api_key, env, model_loaded, pinecone_ready,
                   population_in_progress, running, http_status,
                   vector_count, written>>

\* GET /health of app.main and app.main_optimized: the globals are read and
\* returned
health_check ==
    /\ app \in {"main", "main_optimized"}
    /\ health' = Healthy
    /\ UNCHANGED <<loader_vars, call_vars, config_error, id_vars, local_vars, match_vars,
                   app, api_key, env, model_loaded, pinecone_ready,
                   population_in_progress, tasks, running, http_status,
                   vector_count, written>>

\* GET /health of app.main_pinecone: initialize_components, then the count
\* (get_index_stats does not raise) or, without an API key, get_client
health_check_pinecone ==
    /\ app = "main_pinecone"
    /\ \E c \in {initialize_components(model_loaded, pinecone_ready, api_key,
                                        vector_count, o) : o \in Outcomes} :
            /\ model_loaded' = c.model_loaded
            /\ pinecone_ready' = c.pinecone_ready
            /\ vector_count' = c.vector_count
            /\ written' = (written \/ c.vector_count # vector_count)
            /\ collection_exists' =
                  (collection_exists \/ c.created \/ (~c.raised /\ ~api_key))
            /\ health' = IF c.raised THEN Unavailable ELSE Healthy
    /\ UNCHANGED <<loader_vars, call_vars, config_error, id_vars, points, lpc,
                   force_reload, prev, match_vars, app, api_key, env,
                   population_in_progress, tasks, running, http_status>>

\* a created population task begins: populate_pinecone_robust (or
\* populate_pinecone_background) sets population_in_progress
PopulateBegin ==
    /\ tasks > 0
    /\ running < MaxRunning
    /\ tasks' = tasks - 1
    /\ running' = running + 1
    /\ population_in_progress' = TRUE
    /\ UNCHANGED <<loader_vars, call_vars, config_error, id_vars, local_vars, match_vars,
                   app, api_key, env, model_loaded, pinecone_ready, http_status,
                   vector_count, written, health>>

\* (mutant) a run whose model load raised leaves population_in_progress set
PopulateEndKeepsFlag ==
    /\ running > 0
    /\ running' = running - 1
    /\ \E p \in {IF app = "main"
                 THEN populate_pinecone_robust(model_loaded, pinecone_ready,
                                               api_key, vector_count, o)
                 ELSE populate_pinecone_background(model_loaded, pinecone_ready,
                                                   api_key, vector_count, o) :
                 o \in Outcomes} :
            /\ model_loaded' = p.model_loaded
            /\ pinecone_ready' = p.pinecone_ready
            /\ vector_count' = p.vector_count
            /\ written' = (written \/ p.vector_count # vector_count)
            /\ population_in_progress' = (population_in_progress /\ ~p.model_loaded)
    /\ UNCHANGED <<loader_vars, call_vars, config_error, id_vars, local_vars, match_vars,
                   app, api_key, env, tasks, http_status, health>>

\* the rest of the population task: population_in_progress is cleared on
\* every path
PopulateEnd ==
    /\ running > 0
    /\ running' = running - 1
    /\ population_in_progress' = FALSE
    /\ \E p \in {IF app = "main"
                 THEN populate_pinecone_robust(model_loaded, pinecone_ready,
                                               api_key, vector_count, o)
                 ELSE populate_pinecone_background(model_loaded, pinecone_ready,
                                                   api_key, vector_count, o) :
                 o \in Outcomes} :
            /\ model_loaded' = p.model_loaded
            /\ pinecone_ready' = p.pinecone_ready
            /\ vector_count' = p.vector_count
            /\ written' = (written \/ p.vector_count # vector_count)
    /\ UNCHANGED <<loader_vars, call_vars, config_error, id_vars, local_vars, match_vars,
                   app, api_key, env, tasks, http_status, health>>

NextService ==
    \/ check_quote
    \/ check_quote_pinecone
    \/ health_check
    \/ health_check_pinecone
    \/ PopulateBegin
    \/ PopulateEnd

SpecService == InitService /\ [][NextService]_vars

\* ------------------------------------------- the build phase of app.main
\* app.main from its startup on, in an environment that stays as it is for
\* the whole execution (env) and in which every batch upsert succeeds: the
\* corpus file is present and upload_verses_robust uploads the whole corpus.
\* The event loop runs every task that was created and every run goes on to
\* its end; requests keep arriving.
InitBuild ==
    /\ LoadersIdle
    /\ IdIdle
    /\ MatchIdle
    /\ CallIdle
    /\ points = {}
    /\ lpc = "idle"
    /\ force_reload = FALSE
    /\ prev = "none"
    /\ collection_exists = FALSE
    /\ app = "main"
    /\ env \in Envs
    /\ api_key \in BOOLEAN
    /\ population_in_progress = FALSE
    /\ pinecone_ready = FALSE
    /\ running = 0
    /\ http_status = 0
    /\ written = FALSE
    /\ health = NoHealth
    /\ model_loaded = env.load
    /\ vector_count \in {c \in ServiceCounts : ~api_key => c = 0}
    /\ tasks = IF api_key /\ env.load THEN 1 ELSE 0

\* the requests of the build phase: a blank quote, and the text of a verse
\* that the index, once it holds the corpus, returns with similarity 1
BuildRequests ==
    {r \in ServiceRequests :
        /\ Len(r[1]) <= 1
        /\ r[2].found /\ r[2].score = 100000
        /\ r[3] = <<TRUE, TRUE>>}

\* POST /check given a request of the build phase
BuildCheck == check_quote_of(BuildRequests)

\* what env and the succeeding upserts make of one population run
BuildOutcome ==
    [load |-> env.load, conn |-> env.conn, stats |-> env.stats,
     success |-> TRUE, final |-> ServiceCorpus]

\* (mutant) the run ends without the verification that sets pinecone_ready
BuildEndUnverified ==
    /\ running > 0
    /\ running' = running - 1
    /\ population_in_progress' = FALSE
    /\ LET p == populate_pinecone_robust(model_loaded, pinecone_ready, api_key,
                                         vector_count, BuildOutcome)
       IN  /\ model_loaded' = p.model_loaded
           /\ pinecone_ready' = pinecone_ready
           /\ vector_count' = p.vector_count
           /\ written' = (written \/ p.vector_count # vector_count)
    /\ UNCHANGED <<loader_vars, call_vars, config_error, id_vars, local_vars, match_vars,
                   app, api_key, env, tasks, http_status, health>>

\* the rest of a population run of app.main in this environment
BuildEnd ==
    /\ running > 0
    /\ running' = running - 1
    /\ population_in_progress' = FALSE
    /\ LET p == populate_pinecone_robust(model_loaded, pinecone_ready, api_key,
                                         vector_count, BuildOutcome)
       IN  /\ model_loaded' = p.model_loaded
           /\ pinecone_ready' = p.pinecone_ready
           /\ vector_count' = p.vector_count
           /\ written' = (written \/ p.vector_count # vector_count)
    /\ UNCHANGED <<loader_vars, call_vars, config_error, id_vars, local_vars, match_vars,
                   app, api_key, env, tasks, http_status, health>>

NextBuild ==
    \/ BuildCheck
    \/ PopulateBegin
    \/ BuildEnd

SpecBuild ==
    /\ InitBuild
    /\ [][NextBuild]_vars
    /\ WF_vars(PopulateBegin)
    /\ WF_vars(BuildEnd)
    /\ WF_vars(BuildCheck)

\* ------------------------------------------- the upload of one batch
\* standalone_upload.upload_batch_with_retries(index, vectors, batch_num,
\* max_retries) and the retry loop inside app.main's upload_verses_robust,
\* statement by statement.  bpc: "call" before index.upsert, "except" in the
\* handler of a raised upsert, "sleeping" in asyncio.sleep, "returned".
Callers == {"upload_batch_with_retries", "upload_verses_robust"}

\* max_retries: the parameter of upload_batch_with_retries (5 by default, 3
\* in the retry pass), the local of upload_verses_robust
Budgets(c) == IF c = "upload_batch_with_retries" THEN 0 .. MaxBudget ELSE {3}

InitRetry ==
    /\ LoadersIdle
    /\ IdIdle
    /\ LocalIdle
    /\ MatchIdle
    /\ ServiceIdle
    /\ caller \in Callers
    /\ budget \in Budgets(caller)
    /\ tries = 0
    /\ bpc = "enter"
    /\ upserts = 0
    /\ sleeps = 0
    /\ returned = "none"

\* for attempt in range(max_retries) / while retry_count < max_retries: the
\* loop test; upload_batch_with_retries returns False below its loop
LoopTest ==
    /\ bpc = "enter"
    /\ IF tries < budget
       THEN /\ bpc' = "call"
            /\ UNCHANGED returned
       ELSE /\ bpc' = "returned"
            /\ returned' = "false"
    /\ UNCHANGED <<loader_vars, config_error, id_vars, local_vars, match_vars,
                   service_vars, caller, budget, tries, upserts, sleeps>>

\* index.upsert(vectors=...) returns: return True / break
UpsertReturns ==
    /\ bpc = "call"
    /\ upserts' = upserts + 1
    /\ bpc' = "returned"
    /\ returned' = "true"
    /\ UNCHANGED <<loader_vars, config_error, id_vars, local_vars, match_vars,
                   service_vars, caller, budget, tries, sleeps>>

\* index.upsert(vectors=...) raises
UpsertRaises ==
    /\ bpc = "call"
    /\ upserts' = upserts + 1
    /\ bpc' = "except"
    /\ UNCHANGED <<loader_vars, config_error, id_vars, local_vars, match_vars,
                   service_vars, caller, budget, tries, sleeps, returned>>

\* (mutant) the handler sleeps after every failed attempt, the last included
HandlerAlwaysSleeps ==
    /\ bpc = "except"
    /\ bpc' = "sleeping"
    /\ sleeps' = sleeps + 1
    /\ tries' = tries + 1
    /\ UNCHANGED <<loader_vars, config_error, id_vars, local_vars, match_vars,
                   service_vars, caller, budget, upserts, returned>>

\* the except handler.  upload_batch_with_retries: if attempt <
\* max_retries - 1 sleep, else return False.  upload_verses_robust:
\* retry_count += 1, then if retry_count < max_retries sleep, else return
\* False.
Handler ==
    /\ bpc = "except"
    /\ IF tries + 1 < budget
       THEN /\ bpc' = "sleeping"
            /\ sleeps' = sleeps + 1
            /\ UNCHANGED returned
       ELSE /\ bpc' = "returned"
            /\ returned' = "false"
            /\ UNCHANGED sleeps
    /\ tries' = tries + 1
    /\ UNCHANGED <<loader_vars, config_error, id_vars, local_vars, match_vars,
                   service_vars, caller, budget, upserts>>

\* asyncio.sleep returns and the loop goes round
Wake ==
    /\ bpc = "sleeping"
    /\ bpc' = "enter"
    /\ UNCHANGED <<loader_vars, config_error, id_vars, local_vars, match_vars,
                   service_vars, caller, budget, tries, upserts, sleeps,
                   returned>>

NextRetry == LoopTest \/ UpsertReturns \/ UpsertRaises \/ Handler \/ Wake

\* the coroutine is run to its end by the event loop
SpecRetry == InitRetry /\ [][NextRetry]_vars /\ WF_vars(NextRetry)

\* ------------------------------------------------------------------ claims
NoUpsertFailed == \A p \in Procs : ~upsert_failed[p]

\* the batch starts of a run's main pass: range(resume_from, total, batch_size)
\* without the batches standalone skips for having no valid vector
BatchStarts(p) ==
    {s \in Verses : /\ s >= resume_from[p]
                    /\ (s - resume_from[p]) % batch_size(kind) = 0
                    /\ (kind = "standalone" => Vectors(kind, s) # {})}

InSeq(x, sq) == \E n \in 1 .. Len(sq) : sq[n] = x

\* C1: Idempotence of standalone_upload.main: once one run has gone to
\* completion with every upsert succeeding, no step of another run, in
\* particular of a second run over the same corpus, changes the index's set of
\* ids (and so its entry count): two runs leave what one run leaves.
C1_Idempotence ==
    [][(/\ kind = "standalone"
        /\ NoUpsertFailed
        /\ \E p \in Procs : pc[p] = "done")
       => index' = index]_vars

\* a second run that started after the first had ended, from an index the
\* first run filled from empty, and that upserted entries again
C1_Witness ==
    /\ kind = "standalone"
    /\ NoUpsertFailed
    /\ \E p, q \in Procs :
         /\ p # q
         /\ pc[p] = "done" /\ pc[q] = "done"
         /\ ended_before[p] = {} /\ progress_ok[p] /\ current_count[p] = 0
         /\ successful_uploads[p] = Cardinality(Valid)
         /\ p \in ended_before[q]
         /\ successful_uploads[q] > 0
         /\ index = Valid

\* C2: Resumability: when a run was interrupted after upserting the first
\* batches in order and another run has gone to completion with every upsert
\* succeeding, the index holds exactly one entry per corpus verse: no verse is
\* missing, no foreign id is present, and with every record valid its size is
\* the corpus size.
C2_Resumability ==
    \A p, q \in Procs :
        (/\ kind \in {"standalone", "upload_all"}
         /\ pc[p] = "interrupted"
         /\ pc[q] = "done"
         /\ NoUpsertFailed)
        => /\ index = Valid
           /\ (invalid = {} => Cardinality(index) = total)

\* a run interrupted after 1 of its 2 batches, then a re-run that read that
\* size, resumed inside the stored prefix and finished
C2_Witness ==
    /\ kind \in {"standalone", "upload_all"}
    /\ NoUpsertFailed
    /\ \E p, q \in Procs :
         /\ pc[p] = "interrupted"
         /\ successful_uploads[p] = batch_size(kind)
         /\ successful_uploads[p] < total
         /\ pc[q] = "done"
         /\ p \in ended_before[q]
         /\ progress_ok[q]
         /\ current_count[q] = batch_size(kind)
         /\ resume_from[q] > 0
         /\ result[q] = "true"

\* C3 (as claimed): after a standalone run that recorded a batch as failed
\* while it wrote later batches, a subsequent full re-run whose upserts all
\* succeed leaves every valid corpus verse in the index.
C3_RerunPicksUpMissed ==
    \A p, q \in Procs :
        (/\ kind = "standalone"
         /\ pc[p] = "done"
         /\ failed_batches[p] # <<>>
         /\ successful_uploads[p] > 0
         /\ pc[q] = "done"
         /\ p \in ended_before[q]
         /\ progress_ok[q]
         /\ ~upsert_failed[q])
        => Valid \subseteq index

\* C4: two runs of the Index Builder over the same corpus and index, begun at
\* any time relative to each other and interleaved in any order: when both
\* have finished and every upsert succeeded, the index holds exactly the
\* corpus verses' ids, none missing and none besides.
C4_ConcurrentRuns ==
    (/\ kind \in {"standalone", "upload_all"}
     /\ \A p \in Procs : pc[p] = "done"
     /\ NoUpsertFailed)
    => /\ index = Valid
       /\ Cardinality(index) = total - Cardinality(invalid)

\* both runs overlapped: neither had ended when the other began, and each
\* upserted entries
C4_Witness ==
    /\ kind \in {"standalone", "upload_all"}
    /\ NoUpsertFailed
    /\ \A p \in Procs :
         /\ pc[p] = "done"
         /\ ended_before[p] = {}
         /\ successful_uploads[p] > 0
    /\ \E p \in Procs : current_count[p] > 0 /\ resume_from[p] > 0

\* C5: standalone_upload: a batch whose retries are exhausted is recorded in
\* failed_batches and the main pass goes on: when the main pass is over, an
\* upsert was issued for every batch of range(resume_from, total, 50) that has
\* a valid vector, and every such batch is either stored or recorded as failed.
C5_ContinuesAfterFailure ==
    \A p \in Procs :
        (/\ kind = "standalone"
         /\ pc[p] \in {"retry", "final", "done"}
         /\ current_count[p] < total)
        => /\ attempted[p] = BatchStarts(p)
           /\ \A s \in BatchStarts(p) :
                 \/ InSeq(s, failed_batches[p])
                 \/ Vectors(kind, s) \subseteq index

\* the first batch was recorded as failed and the batch after it was still
\* upserted
C5_Witness ==
    /\ kind = "standalone"
    /\ \E p \in Procs :
         /\ pc[p] = "done"
         /\ failed_batches[p] = <<resume_from[p]>>
         /\ resume_from[p] + batch_size(kind) \in attempted[p]
         /\ Vectors(kind, resume_from[p] + batch_size(kind)) \subseteq index
         /\ ~(Vectors(kind, resume_from[p]) \subseteq index)

\* C6 (as claimed): app.main's upload_verses_robust accumulates failures: when
\* its run is over, an upsert was issued for every batch of
\* range(0, total, 50), also after a batch that exhausted its retries.
C6_AppMainAccumulates ==
    \A p \in Procs :
        (/\ kind = "app_main"
         /\ pc[p] = "done"
         /\ current_count[p] < READY_COUNT)
        => /\ attempted[p] = BatchStarts(p)
           /\ result[p] \in {"true", "false"}

\* C7 (as claimed): an Index Builder run that read an index size N >= corpus
\* size is over at once, reports success and has issued no upsert.
C7_AlreadyComplete ==
    \A p \in Procs :
        (/\ kind \in BuilderKinds
         /\ pc[p] # "idle"
         /\ progress_ok[p]
         /\ current_count[p] >= total)
        => /\ pc[p] = "done"
           /\ result[p] = "true"
           /\ attempted[p] = {}
           /\ successful_uploads[p] = 0

C9_SuccessAt95Percent ==
    \A p \in Procs :
        (/\ kind \in BuilderKinds
         /\ pc[p] = "done"
         /\ progress_ok[p]
         /\ current_count[p] < total
         /\ final_read[p] # "failed")
        => result[p] = Bool(Enough(IF final_read[p] = "ok"
                                   THEN final_count[p]
                                   ELSE Cardinality(index), total))

\* C10 (as claimed): a record lacking a required field is skipped and the load
\* goes on: a load that ended without any failed upsert has upserted every
\* valid record of the corpus.
C10_InvalidRecordSkipped ==
    \A p \in Procs :
        (/\ kind \in {"standalone", "upload_all", "app_main", "pinecone_store"}
         /\ pc[p] = "done"
         /\ NoUpsertFailed)
        => Valid \subseteq index

\* C11 (as claimed): a run whose first read of the index size failed is over
\* at once as a fatal failure and has issued no upsert.
C11_UnreachableIsFatal ==
    \A p \in Procs :
        (/\ kind \in BuilderKinds \cup {"app_main"}
         /\ pc[p] # "idle"
         /\ ~progress_ok[p])
        => /\ pc[p] = "done"
           /\ result[p] = "false"
           /\ attempted[p] = {}

\* C12 (as claimed): under a configuration error (bad credentials, or an index
\* of another dimension) a run that could not connect or whose upsert failed is
\* over at once as a failure: the failing upsert was issued once and for one
\* batch only.
C12_ConfigErrorEndsRun ==
    \A p \in Procs :
        (/\ config_error \in ConfigErrors
         /\ pc[p] # "idle"
         /\ (config_error = "credentials" \/ upsert_failed[p]))
        => /\ pc[p] = "done"
           /\ result[p] = "false"
           /\ attempt[p] = 0
           /\ Cardinality(attempted[p]) <= 1
           /\ failed_batches[p] = <<>>

\* C13 (as claimed): the id of an entry depends on its record's book, chapter
\* and verse only: the same record loaded from any two positions of the corpus
\* gets the same id both times, so the second load overwrites the first.
C13_IdFromIdentityKey ==
    ids # <<>> => /\ ids[1] = ids[2]
                  /\ Cardinality({ids[1], ids[2]}) = 1

\* C14 (as claimed): when an invocation of load_and_embed stopped after the
\* collection was created and before the points were upserted, the next
\* invocation without force, once over, leaves every valid corpus record in
\* the collection.
C14_LocalLoaderReinvocation ==
    (/\ prev = "interrupted"
     /\ ~force_reload
     /\ lpc \in {"done", "returned"})
    => {point_id("bible_loader", n, verse) : n \in Valid} \subseteq points

\* C15: standalone_upload's retry pass: during the pass the rounds begun so far
\* are those of the first failed batches, in order, and a round has at most 3
\* upsert attempts; when the pass is over every batch recorded as failed had
\* exactly one round, and no batch that was stored in the main pass had one.
C15_RetryPassOnce ==
    \A p \in Procs :
        /\ pc[p] = "retry" =>
              /\ attempt[p] < retry_pass_retries
              /\ retried[p] = SubSeq(failed_batches[p], 1,
                                     retry_at[p] - (IF attempt[p] = 0 THEN 1 ELSE 0))
        /\ pc[p] \in {"final", "done"} =>
              /\ retried[p] = failed_batches[p]
              /\ \A m, n \in 1 .. Len(retried[p]) :
                    retried[p][m] = retried[p][n] => m = n
              /\ \A s \in attempted[p] :
                    ~InSeq(s, failed_batches[p]) => ~InSeq(s, retried[p])

\* both batches failed in the main pass and were retried, the first one
\* stored by the retry pass, the second given up
C15_Witness ==
    \E p \in Procs :
        /\ kind = "standalone"
        /\ pc[p] = "done"
        /\ retried[p] = <<0, batch_size(kind)>>
        /\ Vectors(kind, 0) \subseteq index
        /\ ~(Vectors(kind, batch_size(kind)) \subseteq index)

\* C16 (as claimed): for a quote that is empty after trimming the Match Engine,
\* on either backend, returns match false, score 0.0, an empty reference and an
\* empty text, and has made no embedding call and no index query.
C16_EmptyQuoteShortCircuit ==
    (response # NoResponse /\ strip(quote) = <<>>)
    => /\ response.status = "ok"
       /\ response.match = FALSE
       /\ response.score = 0
       /\ response.reference = <<>>
       /\ response.text = ""
       /\ calls = [embed |-> 0, query |-> 0]

\* C17 (as claimed): whatever the service's state, POST /check with an empty
\* quote is answered 200 with match false, score 0.0 and a message containing
\* "Empty quote", and with a quote of whitespace only 200 with match false and
\* score 0.0.
C17_CheckEmptyQuote ==
    (http_status # 0 /\ strip(quote) = <<>>)
    => /\ http_status = 200
       /\ response.match = FALSE
       /\ response.score = 0
       /\ (quote = <<>> => response.message = "Empty quote provided")

\* C18: a query that the index answers without any neighbour (an index with no
\* entry) is not an error: the Match Engine returns match false, score 0.0 and
\* its message that no verse was found ("No verses found in database" on the
\* local backend, "No similar Bible verse found." on Pinecone).
C18_EmptyIndexNotAnError ==
    (/\ response # NoResponse
     /\ calls.query > 0
     /\ reachable
     /\ ~neighbour.found)
    => /\ response.status = "ok"
       /\ response.match = FALSE
       /\ response.score = 0
       /\ response.message = (IF backend = "qdrant"
                              THEN "No verses found in database"
                              ELSE "No similar Bible verse found.")

\* the local backend embedded a quote, queried an empty collection and
\* answered
C18_Witness ==
    /\ backend = "qdrant"
    /\ quote = <<"x">>
    /\ reachable
    /\ ~neighbour.found
    /\ calls = [embed |-> 1, query |-> 1]
    /\ response.status = "ok"
    /\ response.message = "No verses found in database"

C20_MatchAgreesWithScore ==
    response.status = "ok"
    => /\ response.match => response.score >= 70000
       /\ ~response.match => response.score < 70000

\* C20 (amended): the match flag is decided on the unrounded score, so it
\* agrees with the returned score up to the rounding: the returned score is a
\* multiple of 0.0001 within 0.00005 of the neighbour's score, at least 0.7
\* when match is true and at most 0.7 when match is false.
C20_MatchAgreesUpToRounding ==
    response.status = "ok"
    => /\ response.match => response.score >= 70000
       /\ ~response.match => response.score <= 70000
       /\ (calls.query > 0 /\ neighbour.found)
            => /\ response.score % 10 = 0
               /\ response.score - neighbour.score <= 5
               /\ neighbour.score - response.score <= 5

\* a neighbour of score 0.69996: not a match, returned with score 0.7
C20_Witness ==
    /\ response.status = "ok"
    /\ neighbour.found
    /\ neighbour.score = 69996
    /\ response.match = FALSE
    /\ response.score = 70000

\* C21 (as claimed): every result the Match Engine returns has a score in the
\* closed range [0, 1] (0 .. 100000 units of 0.00001), whatever similarity in
\* [-1, 1] the index reports for the best neighbour.
C21_ScoreInUnitRange ==
    response.status = "ok"
    => /\ response.score >= 0
       /\ response.score <= 100000

\* C22: whenever the index returns a best neighbour, the result's reference is
\* "{book} {chapter}:{verse}" of that neighbour's payload and its text is the
\* payload's text, whether the quote is classified as matched or not.
C22_ReferenceFromPayload ==
    (/\ response.status = "ok"
     /\ calls.query > 0
     /\ neighbour.found)
    => /\ response.reference =
            neighbour.book \o <<" ">> \o Dec(neighbour.chapter)
                \o <<":">> \o Dec(neighbour.verse)
       /\ response.text = neighbour.text

\* Pinecone's search returned a neighbour below the threshold, of book "a",
\* chapter 10, verse 16, as not matched with reference "a 10:16" and its text
C22_Witness ==
    /\ backend = "pinecone"
    /\ response.status = "ok"
    /\ neighbour.found
    /\ neighbour.chapter = 10
    /\ response.match = FALSE
    /\ response.reference = <<"a", " ", "1", "0", ":", "1", "6">>
    /\ response.text = "t"

\* C23: when the embedding of the quote or the index query fails, the Match
\* Engine raises an error to its caller, on either backend; the failure never
\* becomes a result (in particular not one with match false).
C23_FailureSurfaces ==
    (/\ response # NoResponse
     /\ \/ calls.embed > 0 /\ ~encodes
        \/ calls.query > 0 /\ ~reachable)
    => /\ response.status = "error"
       /\ response.status # "ok"

\* the local backend tried to embed a quote, the embedding failed, no query
\* was made and the search raised
C23_Witness ==
    /\ backend = "qdrant"
    /\ quote = <<"x">>
    /\ ~encodes
    /\ calls = [embed |-> 1, query |-> 0]
    /\ response.status = "error"

\* C24 (as claimed): every /check response is a result computed from the index
\* (or the empty-quote or empty-index result) or an error; while the index is
\* not populated (pinecone_ready is false) a quote that is not blank is never
\* answered 200 with an ordinary result of match false.
C24_NoResultBeforePopulated ==
    (/\ http_status # 0
     /\ ~pinecone_ready
     /\ strip(quote) # <<>>)
    => ~(/\ http_status = 200
         /\ response.status = "ok"
         /\ response.match = FALSE)

\* C25 (as claimed): handling a query has no side effect on the Vector Index:
\* no /check request creates, deletes or upserts index content (the Pinecone
\* index's vectors, the local collection and its points), nor creates a task
\* that does.
C25_QueryHasNoSideEffects ==
    [][(check_quote \/ check_quote_pinecone)
        => /\ vector_count' = vector_count
           /\ collection_exists' = collection_exists
           /\ points' = points
           /\ tasks' <= tasks]_vars

\* C26 (as claimed): two /check requests with the same quote, the index
\* holding the same neighbour for it and answering alike, and no write to the
\* index between the two answers, get the same response: nothing the service
\* keeps between requests changes the answer.
C26_SameQuoteSameAnswer ==
    [][(/\ check_quote \/ check_quote_pinecone
        /\ http_status # 0
        /\ ~written
        /\ vector_count' = vector_count
        /\ quote' = quote
        /\ neighbour' = neighbour
        /\ reachable' = reachable
        /\ encodes' = encodes)
        => /\ response' = response
           /\ http_status' = http_status]_vars

\* C27 (as claimed): in every reachable state of a service that uses Pinecone,
\* pinecone_ready is true only if the index holds at least 95% of the corpus:
\* a partially populated index is never declared ready.
C27_ReadyOnlyWhenPopulated ==
    (api_key /\ pinecone_ready) => Enough(vector_count, ServiceCorpus)

\* C28: GET /health of app.main can be answered in every state of the service
\* (model loaded or not, populating or not, ready or not); its answer is 200
\* with status "healthy", and answering it changes nothing: no population
\* task is created, begun or awaited, no flag and no index content changes.
C28_HealthAlwaysHealthy ==
    /\ [](app = "main" => ENABLED health_check)
    /\ [][(health_check /\ app = "main")
            => /\ health' = [code |-> 200, status |-> "healthy"]
               /\ UNCHANGED <<tasks, running, population_in_progress,
                              pinecone_ready, model_loaded, vector_count,
                              collection_exists, points>>]_vars

\* app.main answered /health 200 "healthy" while the population was running,
\* the model not loaded and the index not ready
C28_Witness ==
    /\ app = "main"
    /\ health = [code |-> 200, status |-> "healthy"]
    /\ population_in_progress
    /\ ~model_loaded
    /\ ~pinecone_ready

\* C29: a /check request whose quote is longer than 1000 characters is
\* answered 422 without the handler acting: no readiness check starts a
\* population task, no embedding call and no index query is made, no flag and
\* no index content changes; every quote of 0 to 1000 characters passes
\* validation (its answer is not 422).
C29_LongQuoteRejected ==
    [][IF Len(quote') > 1000
       THEN \/ /\ http_status' = 422
               /\ response'.status = "invalid"
               /\ calls' = [embed |-> 0, query |-> 0]
               /\ UNCHANGED <<tasks, running, population_in_progress,
                              pinecone_ready, model_loaded, vector_count,
                              collection_exists, points>>
            \/ ~(check_quote \/ check_quote_pinecone)
       ELSE /\ http_status' # 422
            /\ response'.status # "invalid"]_vars

\* a quote of 1001 characters was rejected with 422 while the index was not
\* ready and no population was running, and no task was created
C29_Witness ==
    /\ Len(quote) = 1001
    /\ http_status = 422
    /\ response.status = "invalid"
    /\ ~pinecone_ready
    /\ ~population_in_progress
    /\ tasks = 0

\* C30 (as claimed): end to end on app.main with Pinecone: once the corpus is
\* indexed (the index holds at least 95% of it and is not written after the
\* request), a /check with a verse's exact text, for which the index reports
\* that verse (book "a", chapter 3, verse 16) with similarity 1, the model
\* and the index working, is answered 200 with match true, the verse's
\* reference "a 3:16" and a score of at least 0.95.
C30_ExactTextMatches ==
    (/\ app = "main"
     /\ api_key
     /\ http_status # 0
     /\ ~written
     /\ Enough(vector_count, ServiceCorpus)
     /\ quote = <<"x">>
     /\ neighbour.found
     /\ neighbour.score = 100000
     /\ reachable
     /\ encodes)
    => /\ http_status = 200
       /\ response.match = TRUE
       /\ response.score >= 95000
       /\ response.reference = <<"a", " ", "3", ":", "1", "6">>

\* C31: a call that uploads one batch with retries terminates; it issues at
\* most max_retries upserts; it returns True at the first upsert that
\* succeeds (every failed attempt before it was followed by one wait) and
\* issues none after it; it returns False after exactly max_retries failed
\* upserts, having waited after each of them but the last.
C31_RetriesTerminate ==
    /\ <>(bpc = "returned")
    /\ [](upserts <= budget)
    /\ [](returned = "true" => /\ upserts = tries + 1
                               /\ sleeps = tries)
    /\ [](returned = "false" => /\ upserts = budget
                                /\ tries = budget
                                /\ sleeps = Max(budget - 1, 0))
    /\ [][bpc = "returned" => UNCHANGED <<upserts, sleeps, returned>>]_vars

\* upload_batch_with_retries with max_retries = 5 returned False after 5
\* upserts and 4 waits
C31_Witness ==
    /\ caller = "upload_batch_with_retries"
    /\ budget = 5
    /\ bpc = "returned"
    /\ returned = "false"
    /\ upserts = 5
    /\ sleeps = 4

\* number of entries in the batches that start at the positions of seq
RECURSIVE CountOf(_, _)
CountOf(k, seq) ==
    IF seq = <<>> THEN 0
    ELSE Cardinality(Vectors(k, Head(seq))) + CountOf(k, Tail(seq))

\* C32: in standalone's upload_verses_robust the count of uploaded entries is
\* the total size of the batches whose upsert succeeded, in the main pass or
\* in the retry pass; no batch is counted twice, and the count never exceeds
\* the corpus size minus the resume offset.
C32_CountIsUploadedBatches ==
    kind = "standalone" =>
        \A p \in Procs :
            /\ successful_uploads[p] = CountOf(kind, counted[p])
            /\ \A m, n \in 1 .. Len(counted[p]) :
                   counted[p][m] = counted[p][n] => m = n
            /\ successful_uploads[p] <= total - resume_from[p]

\* the first batch failed in the main pass and was uploaded in the retry
\* pass, after the second one: both are counted, each once
C32_Witness ==
    /\ kind = "standalone"
    /\ \E p \in Procs :
        /\ pc[p] \in {"final", "done"}
        /\ failed_batches[p] = <<0>>
        /\ counted[p] = <<batch_size(kind), 0>>
        /\ successful_uploads[p] = Cardinality(Valid)

\* C33: upload_verses_to_pinecone upserts the corpus in order, each batch
\* once, in batches of exactly 100 verses except possibly the last; it
\* returns True only if every upsert succeeded and every verse was upserted,
\* and the first upsert that fails is its last: it returns False at once.
C33_WholeCorpusInOrderOrFalse ==
    kind = "pinecone_store" =>
        \A p \in Procs :
            /\ \A m \in 1 .. Len(counted[p]) : counted[p][m] = 100 * (m - 1)
            /\ \A s \in attempted[p] :
                   \/ Cardinality(Batch(kind, s)) = 100
                   \/ s + Cardinality(Batch(kind, s)) = total
            /\ result[p] = "true" =>
                   /\ ~upsert_failed[p]
                   /\ successful_uploads[p] = total
                   /\ Verses \subseteq index
                   /\ attempted[p] = {counted[p][m] : m \in 1 .. Len(counted[p])}
            /\ upsert_failed[p] =>
                   /\ pc[p] = "done"
                   /\ result[p] = "false"
                   /\ attempted[p] =
                          {counted[p][m] : m \in 1 .. Len(counted[p])} \cup {i[p]}
                   /\ i[p] = 100 * Len(counted[p])

\* a corpus of two batches, the first of 100 verses, was uploaded whole
C33_Witness ==
    /\ kind = "pinecone_store"
    /\ total = 2 * MaxCorpus
    /\ \E p \in Procs :
        /\ result[p] = "true"
        /\ counted[p] = <<0, 100>>
        /\ successful_uploads[p] = total

\* C34: the step that ends a population run of the service leaves
\* population_in_progress false, whatever the path the run took; when no run
\* is under way the flag is false.
C34_FlagClearedAtEnd ==
    /\ [][running' < running => ~population_in_progress']_vars
    /\ [](running = 0 => ~population_in_progress)

\* a run of app.main ended after an upload that changed the index and did
\* not make it ready: the flag is clear
C34_Witness ==
    /\ app = "main"
    /\ running = 0
    /\ tasks = 0
    /\ written
    /\ ~pinecone_ready
    /\ ~population_in_progress

C36_SearchOnlyWhenReady ==
    [][(validate(quote') /\ app # "main_pinecone")
        => \/ /\ (calls'.embed > 0 \/ calls'.query > 0) => pinecone_ready
              /\ ~pinecone_ready =>
                    /\ http_status' = 200
                    /\ response' = InitializingResult
                    /\ response'.match = FALSE
                    /\ response'.score = 0
                    /\ (tasks' = tasks + 1) <=> (tasks = 0 /\ running = 0)
           \/ ~check_quote]_vars

C38_FallsBackToQdrant ==
    (~api_key) ~> (/\ http_status = 200
                   /\ strip(quote) # <<>>
                   /\ backend = "qdrant"
                   /\ calls.query > 0)

\* the records of the id derivation: every identity key within the bounds
IdVerses == [book : Books, chapter : 1 .. MaxNumber, verse : 1 .. MaxNumber]

\* C39: the id "{book}_{chapter}_{verse}" that standalone_upload and
\* pinecone_store give an entry is injective on identity keys: no record
\* with another (book, chapter, verse) gets the id of this entry, also when
\* the book names contain the separator or digits.
C39_IdInjective ==
    (/\ loader \in {"standalone", "pinecone_store"}
     /\ at = <<0, 0>>
     /\ ids # <<>>)
    => \A w \in IdVerses :
           w # verse => /\ pinecone_id(w) # ids[1]
                        /\ point_id(loader, 0, w) # ids[2]

\* the entry of book "1_", chapter 1, verse 11 has the id "1__1_11"; the
\* records ("1", 1, 11) and ("1_", 11, 1) have other ids
C39_Witness ==
    /\ loader = "standalone"
    /\ at = <<0, 0>>
    /\ verse = [book |-> <<"1", "_">>, chapter |-> 1, verse |-> 11]
    /\ ids = << <<"1", "_", "_", "1", "_", "1", "1">>,
                <<"1", "_", "_", "1", "_", "1", "1">> >>

====
